---- MODULE Spec2Model ----
(***************************************************************************)
(* The client-side connection state machine of the container loader:       *)
(* ConnectionStateHandler and its catch-up adapter ConnectionStateCatchup  *)
(* (connectionStateHandler.ts).  One action per public operation, quorum   *)
(* event, timer callback and monitor signal; each action runs the whole    *)
(* handler, nested calls included.  The runtime's BatchManager and the     *)
(* deli message loop (batchManager.ts) are two further components with     *)
(* their own actions and specification.                                    *)
(***************************************************************************)
EXTENDS Integers, Sequences, FiniteSets, TLC

(* ---------------------------------------------------------------------- *)
(* Bounds and identifiers                                                  *)
(* ---------------------------------------------------------------------- *)

\* Number of connections the relay hands out in one run; connection k gets id k.
MaxConnects == 2

\* `undefined` for _clientId / _pendingClientId.
NoClient == -1

\* The id passed to the constructor when resuming a previous session.
InitialId == 0

\* A client of the document that is never this container.
ForeignId == MaxConnects + 1

ClientIds == 0 .. ForeignId

ConnectionStates == {"Disconnected", "CatchingUp", "Connected"}

ConnectionModes == {"read", "write"}

\* Most ops the delta stream knows of and has not processed yet.
MaxBehind == 1

\* Largest number of push calls one BatchManager takes.
MaxPushes == 2

\* Largest number of checkpoint calls one BatchManager takes; every checkpoint object
\* stays with the caller, who may roll any of them back, any number of times.
MaxCheckpoints == 2

\* An absent value: message.contents, options.softLimit or options.compressionOptions
\* is undefined.
Undefined == -1

\* Number.POSITIVE_INFINITY as a value of minimumBatchSizeInBytes.
Infinity == -2

\* The bytes push adds to its estimate for every op already in the batch.
EnvelopeSize == 200

\* message.contents of the messages pushed: undefined, or a string of that length.
ContentLengths == {Undefined, 100, 400}

\* Offsets of the messages the deli consumer group delivers: 0 .. MaxOffset.
MaxOffset == 3

\* deli:checkpointBatchSize
CheckpointBatchSize == 2

\* objectId of the object messages.
ObjectIds == {"a", "b"}

\* The options a BatchManager is constructed with.
BatchOptions ==
    [hardLimit : {700}, softLimit : {Undefined, 300},
     minimumBatchSizeInBytes : {Undefined, Infinity, 150}]

VARIABLES
    connectionState,      \* _connectionState
    clientId,             \* _clientId
    pendingClientId,      \* _pendingClientId
    prevClientLeftTimer,  \* prevClientLeftTimer.hasTimer
    joinOpTimer,          \* joinOpTimer.hasTimer
    quorumInit,           \* handler.quorumClients() !== undefined
    quorum,               \* ids for which quorumClients.getMember is defined
    shouldHaveLeft,       \* quorum members with shouldHaveLeft = true
    shouldJoinWrite,      \* handler.shouldClientJoinWrite()
    failure,              \* "none", or the code of the assertion that threw
    disposed,             \* dispose() has run
    emitted,              \* connectionStateChanged calls of the latest step
    diags,                \* telemetry / logConnectionIssue events of the latest step
    waitEvent,            \* this.waitEvent !== undefined
    waitEnds,             \* sources of the waitEvent.end({ source }) calls of the latest step
    everJoined,           \* ids whose Join has been sequenced (environment)
    readIds,              \* ids the relay gave to read connections, which never join the
                          \* quorum (environment)
    nextId,               \* next id the relay assigns (environment)
    connMode,             \* mode of the latest receivedConnectEvent
    lastConnId,           \* details.clientId of the latest receivedConnectEvent
    lastOp,               \* the operation of the latest step
    prevEmitted,          \* new state of the last transition delivered before the latest step
    promotions,           \* Connected transitions delivered since the latest receivedConnectEvent
    timerCalls,           \* start / restart / clear calls on the two timers in the latest step
    bestEffortCancel,     \* the runtime may run a callback that was queued before clear() (environment)
    queuedCallbacks,      \* timers whose callback was queued when they were cleared
    wait,                 \* createConnectionStateHandlerCore(wait, ...): the catch-up adapter is installed
    gateState,            \* ConnectionStateCatchup._connectionState
    catchUpMonitor,       \* ConnectionStateCatchup.catchUpMonitor
    forwarded,            \* inputs.connectionStateChanged calls (the owner's listener) of the latest step
    opsBehind,            \* deltaManager.lastKnownSeqNumber - deltaManager.lastSequenceNumber
    forwardedPromotions,  \* Connected transitions the owner received since the latest CatchingUp
    initialLeaveWait,     \* while clientId is still the constructor's id: "waiting" once
                          \* initProtocol found that id in the quorum, "ended" once a Leave of
                          \* that id, a containerSaved or a leave timeout followed, else "none"
    noJoinOpSeen,         \* NoJoinOp was logged for the connection attempt under way and
                          \* the Join of its id has not come since
    prevForwarded,        \* new state of the last transition the owner received before the latest step
    pendingBatch,         \* BatchManager.pendingBatch
    batchContentSize,     \* BatchManager.batchContentSize
    options,              \* BatchManager.options
    pushResult,           \* return value of the latest push
    popResult,            \* return value of the latest popBatch
    processed,            \* messages the latest rollback passed to process, in call order
    batchFailure,         \* "none", or the error a BatchManager call threw
    checkpoints,          \* the objects checkpoint() returned, in call order: startPoint
                          \* of each, and what the batch held then and took since
    rolledBack,           \* index in checkpoints of the object the latest rollback was
                          \* called on, 0 before the first
    lastPushed,           \* the argument of the latest push
    pushCount,            \* push calls so far
    lastBatchOp,          \* the latest BatchManager call
    nextOffset,           \* offset of the next message of the partition
    ticketed,             \* offset -> objectId of the object messages ticketed so far
    resolved,             \* offsets whose ticket promise is resolved
    ticketQueue,          \* ticketQueue: objectId -> offset of the promise stored, or Undefined
    dispensers,           \* keys of dispensers
    recorded,             \* offset of the latest partitionManager.update
    committed,            \* offset recorded when partitionManager.checkPoint last ran
    mongo,                \* offsets whose ticket a finished dispenser checkpoint covers
    callbacks,            \* message callbacks suspended at an await
    lastDeliOp            \* the latest step of the message loop

handlerVars ==
        <<connectionState, clientId, pendingClientId, prevClientLeftTimer, joinOpTimer,
          quorumInit, quorum, shouldHaveLeft, shouldJoinWrite, failure, disposed,
          emitted, diags, waitEvent, waitEnds, everJoined, readIds, nextId, connMode, lastConnId,
          lastOp,
          prevEmitted, promotions, timerCalls, bestEffortCancel, queuedCallbacks,
          wait, gateState, catchUpMonitor, forwarded, opsBehind, forwardedPromotions,
          initialLeaveWait, noJoinOpSeen, prevForwarded>>

batchVars ==
        <<pendingBatch, batchContentSize, options, pushResult, popResult, processed,
          batchFailure, checkpoints, rolledBack, lastPushed, pushCount, lastBatchOp>>

deliVars ==
        <<nextOffset, ticketed, resolved, ticketQueue, dispensers, recorded, committed,
          mongo, callbacks, lastDeliOp>>

vars == <<handlerVars, batchVars, deliVars>>

\* What a step of one component leaves alone.
outsideHandler == <<batchVars, deliVars>>
outsideBatch == <<handlerVars, deliVars>>
outsideDeli == <<handlerVars, batchVars>>

(* ---------------------------------------------------------------------- *)
(* The handler's view of the world at the start of a call                  *)
(* ---------------------------------------------------------------------- *)

\* The handler fields and the collaborators it reads, with empty step logs.
Cur ==
    [connectionState |-> connectionState,
     clientId |-> clientId,
     pendingClientId |-> pendingClientId,
     prevClientLeftTimer |-> prevClientLeftTimer,
     joinOpTimer |-> joinOpTimer,
     quorumInit |-> quorumInit,
     quorum |-> quorum,
     shouldHaveLeft |-> shouldHaveLeft,
     shouldJoinWrite |-> shouldJoinWrite,
     failure |-> failure,
     emitted |-> <<>>,
     diags |-> <<>>,
     waitEvent |-> waitEvent,
     waitEnds |-> <<>>,
     timerCalls |-> <<>>,
     bestEffortCancel |-> bestEffortCancel,
     queuedCallbacks |-> queuedCallbacks,
     wait |-> wait,
     gateState |-> gateState,
     catchUpMonitor |-> catchUpMonitor,
     forwarded |-> <<>>,
     opsBehind |-> opsBehind]

\* assert(cond, code) threw: the call stops here, fields keep what was written so far.
Fail(h, code) == [h EXCEPT !.failure = code]

\* inputs.connectionStateChanged(value, oldState, reason): the owner's listener.
Forward(h, value, oldState, reason) ==
    [h EXCEPT !.forwarded = Append(@, <<value, oldState, reason>>)]

(* ---------------------------------------------------------------------- *)
(* CatchUpMonitor and ConnectionStateCatchup                               *)
(* ---------------------------------------------------------------------- *)

\* catchUpMonitor === undefined
NoMonitor == [exists |-> FALSE, remaining |-> 0, listener |-> FALSE, calls |-> 0]

\* new CatchUpMonitor(deltaManager): the target is the last sequence number known now,
\* so `remaining` ops are to be processed before the target is reached.
NewCatchUpMonitor(h) ==
    [exists |-> TRUE, remaining |-> h.opsBehind, listener |-> FALSE, calls |-> 0]

\* The monitor's "op" handler: one more op has been processed.
MonitorOp(h) ==
    [h EXCEPT !.catchUpMonitor.remaining = IF @ > 0 THEN @ - 1 ELSE 0]

\* The monitor has seen the locally processed sequence number reach its target.
CaughtUp(h) == h.catchUpMonitor.exists /\ h.catchUpMonitor.remaining = 0

\* Variant: a monitor that keeps its listener registered after calling it.
MonitorEmitKeepsListener(h) == [h EXCEPT !.catchUpMonitor.calls = @ + 1]

\* The monitor emits "caughtUp": the one-shot listener is taken off and called.
MonitorEmit(h) ==
    [h EXCEPT !.catchUpMonitor.listener = FALSE, !.catchUpMonitor.calls = @ + 1]

\* Variant: a registration that is lost.
MonitorOnForgets(h) == h

\* catchUpMonitor.on("caughtUp", listener)
MonitorOn(h) == [h EXCEPT !.catchUpMonitor.listener = TRUE]

\* Variant: a disconnect that leaves the monitor and its listener in place.
MonitorDisposeKeepsMonitor(h) == h

\* catchUpMonitor?.dispose(); catchUpMonitor = undefined
MonitorDispose(h) == [h EXCEPT !.catchUpMonitor = NoMonitor]

\* Variant: an adapter that forwards Disconnected without recording it or disposing
\* of the monitor's place in its own state.
GateConnectionStateChangedStaleOnDisconnect(h, value, oldState, reason) ==
    IF value = "Connected"
    THEN IF h.gateState # "CatchingUp"
         THEN Fail(h, "connectivity transitions: Connected")
         ELSE IF ~h.catchUpMonitor.exists
         THEN Fail(h, "catchUpMonitor should always be set")
         ELSE [h EXCEPT !.catchUpMonitor.listener = TRUE]
    ELSE IF value = "Disconnected"
    THEN Forward([h EXCEPT !.catchUpMonitor = NoMonitor], value, oldState, reason)
    ELSE Forward([h EXCEPT !.catchUpMonitor = NewCatchUpMonitor(h), !.gateState = value],
                 value, oldState, reason)

\* Variant: an adapter that hands every transition straight to the owner.
GateConnectionStateChangedForwardsAll(h, value, oldState, reason) ==
    Forward([h EXCEPT !.gateState = value], value, oldState, reason)

\* ConnectionStateCatchup.connectionStateChanged(value, oldState, reason)
GateConnectionStateChanged(h, value, oldState, reason) ==
    IF value = "Connected"
    THEN IF h.gateState # "CatchingUp"
         THEN Fail(h, "connectivity transitions: Connected")
         ELSE IF ~h.catchUpMonitor.exists
         THEN Fail(h, "catchUpMonitor should always be set")
         ELSE MonitorOn(h)
    ELSE IF value = "Disconnected"
    THEN Forward([MonitorDispose(h) EXCEPT !.gateState = value], value, oldState, reason)
    ELSE IF h.gateState # "Disconnected"
    THEN Fail(h, "connectivity transitions: CatchingUp")
    ELSE IF h.catchUpMonitor.exists
    THEN Fail(h, "catchUpMonitor should be gone")
    ELSE Forward([h EXCEPT !.catchUpMonitor = NewCatchUpMonitor(h), !.gateState = value],
                 value, oldState, reason)

\* ConnectionStateCatchup.transitionToConnectedState, the monitor's "caughtUp" listener.
TransitionToConnectedState(h) ==
    IF h.connectionState # "Connected"
    THEN Fail(h, "invariant broken: pimpl")
    ELSE IF h.gateState # "CatchingUp"
    THEN Fail(h, "invariant broken: gate")
    ELSE Forward([h EXCEPT !.gateState = "Connected"], "Connected", "CatchingUp", "caught up")

(* ---------------------------------------------------------------------- *)
(* Timer                                                                   *)
(* ---------------------------------------------------------------------- *)

\* Timer.hasTimer
HasTimer(h, timer) ==
    IF timer = "joinOpTimer" THEN h.joinOpTimer ELSE h.prevClientLeftTimer

\* The timer is armed or not after a call.
SetTimer(h, timer, armed) ==
    IF timer = "joinOpTimer"
    THEN [h EXCEPT !.joinOpTimer = armed]
    ELSE [h EXCEPT !.prevClientLeftTimer = armed]

\* Cancelling an armed timer may leave its callback in the runtime's queue.
CancelTimer(h, timer) ==
    [SetTimer(h, timer, FALSE) EXCEPT
        !.queuedCallbacks = IF HasTimer(h, timer) /\ h.bestEffortCancel
                            THEN @ \cup {timer} ELSE @]

\* Timer.start(): armed with a full interval.
TimerStart(h, timer) ==
    [SetTimer(h, timer, TRUE) EXCEPT !.timerCalls = Append(@, <<timer, "start">>)]

\* Timer.restart(): any running interval is dropped and a full one begins.
TimerRestart(h, timer) ==
    [SetTimer(CancelTimer(h, timer), timer, TRUE) EXCEPT
        !.timerCalls = Append(@, <<timer, "restart">>)]

\* Timer.clear()
TimerClear(h, timer) ==
    [CancelTimer(h, timer) EXCEPT !.timerCalls = Append(@, <<timer, "clear">>)]

(* ---------------------------------------------------------------------- *)
(* ConnectionStateHandler: collaborators                                   *)
(* ---------------------------------------------------------------------- *)

\* handler.connectionStateChanged(value, oldState, reason): the adapter when it is
\* installed, the owner's listener otherwise.
Emit(h, value, oldState, reason) ==
    LET h1 == [h EXCEPT !.emitted = Append(@, <<value, oldState, reason>>)]
    IN  IF h1.wait
        THEN GateConnectionStateChanged(h1, value, oldState, reason)
        ELSE Forward(h1, value, oldState, reason)

\* logger.sendTelemetryEvent / sendErrorEvent / logConnectionIssue / PerformanceEvent.start
Log(h, eventName) == [h EXCEPT !.diags = Append(@, eventName)]

\* this.waitEvent = PerformanceEvent.start(logger, { eventName: "WaitBeforeClientLeave" })
StartWaitEvent(h) == [Log(h, "WaitBeforeClientLeave") EXCEPT !.waitEvent = TRUE]

\* this.waitEvent?.end({ source }): the field is never reset, so every promotion that
\* follows the first span calls end on that span.
EndWaitEvent(h, source) ==
    IF h.waitEvent THEN [h EXCEPT !.waitEnds = Append(@, source)] ELSE h

\* quorumClients?.getMember(id) !== undefined
InQuorum(h, id) == h.quorumInit /\ id \in h.quorum

\* get waitingForLeaveOp
WaitingForLeaveOp(h) == h.prevClientLeftTimer

(* ---------------------------------------------------------------------- *)
(* ConnectionStateHandler: private helpers                                 *)
(* ---------------------------------------------------------------------- *)

\* startJoinOpTimer
StartJoinOpTimer(h) ==
    IF h.joinOpTimer THEN Fail(h, "0x234") ELSE TimerStart(h, "joinOpTimer")

\* stopJoinOpTimer
StopJoinOpTimer(h) ==
    IF ~h.joinOpTimer THEN Fail(h, "0x235") ELSE TimerClear(h, "joinOpTimer")

\* A one-shot timer that expires is no longer armed when its callback runs.
TimerExpired(h, timer) == SetTimer(h, timer, FALSE)

\* setConnectionState: `client`, the quorum member of the current _clientId.
OldClientInQuorum(h) == h.clientId # NoClient /\ InQuorum(h, h.clientId)


\* Variant: a promotion that marks the old client and keeps the old client id.
PromoteClientIdKeepsOld(h) ==
    [h EXCEPT !.shouldHaveLeft = IF OldClientInQuorum(h) THEN @ \cup {h.clientId} ELSE @]

\* Variant: a promotion that also marks the member of the new client id.
PromoteClientIdMarksNew(h) ==
    [h EXCEPT !.shouldHaveLeft = (IF OldClientInQuorum(h) THEN @ \cup {h.clientId} ELSE @)
                                   \cup {h.pendingClientId},
              !.clientId = h.pendingClientId]

\* setConnectionState(Connected): mark the old client and promote the pending id.
PromoteClientId(h) ==
    [h EXCEPT !.shouldHaveLeft = IF OldClientInQuorum(h) THEN @ \cup {h.clientId} ELSE @,
              !.clientId = h.pendingClientId]


\* Variant: a disconnect that forgets the live client id along with the pending one.
ClearPendingStateAndClientId(h) ==
    LET h1 == [h EXCEPT !.pendingClientId = NoClient, !.clientId = NoClient]
    IN  IF h1.joinOpTimer THEN StopJoinOpTimer(h1) ELSE h1

\* setConnectionState(Disconnected): clear pending state, stop the join timer.
ClearPendingState(h) ==
    LET h1 == [h EXCEPT !.pendingClientId = NoClient]
    IN  IF h1.joinOpTimer THEN StopJoinOpTimer(h1) ELSE h1

\* Variant: a disconnect that restarts the leave wait even when it is already running.
ShouldWaitForLeaveWhileArmed(h, client) == client /\ h.shouldJoinWrite

\* Variant: a disconnect that waits for the old client's leave whether or not the owner
\* has ops to round-trip.
ShouldWaitForLeaveIgnoringOps(h, client) == client /\ h.prevClientLeftTimer = FALSE

\* setConnectionState(Disconnected): whether to start waiting for the old client's leave.
ShouldWaitForLeave(h, client) ==
    client /\ h.shouldJoinWrite /\ h.prevClientLeftTimer = FALSE

\* setConnectionState(Disconnected): arm the leave wait or log why not.
WaitForLeaveOnDisconnect(h, client) ==
    IF ShouldWaitForLeave(h, client)
    THEN TimerRestart(h, "prevClientLeftTimer")
    ELSE Log(h, "noWaitOnDisconnected")


\* Variant: setConnectionState with an early exit for a redundant Connected only.
AlreadyInStateOnlyConnected(h, value) == value = "Connected" /\ h.connectionState = value

\* Variant: setConnectionState without the early exit for a redundant request.
AlreadyInStateNever(h, value) == FALSE

\* setConnectionState: the early exit when already in the requested state.
AlreadyInState(h, value) == h.connectionState = value

\* setConnectionState(value, reason)
SetConnectionState(h, value, reason) ==
    IF AlreadyInState(h, value)
    THEN Log(h, "setConnectionStateSame")
    ELSE LET oldState == h.connectionState
             client == OldClientInQuorum(h)
             h1 == [h EXCEPT !.connectionState = value]
         IN  IF value = "Connected"
             THEN IF oldState # "CatchingUp"
                  THEN Fail(h1, "0x1d8")
                  ELSE Emit(PromoteClientId(h1), h1.connectionState, oldState, reason)
             ELSE Emit(WaitForLeaveOnDisconnect(ClearPendingState(h1), client),
                       h1.connectionState, oldState, reason)


\* Variant: applyForConnectedState that does not look at the leave wait.
CanPromoteIgnoringLeaveWait(h) ==
    /\ h.pendingClientId # h.clientId
    /\ h.pendingClientId # NoClient
    /\ InQuorum(h, h.pendingClientId)

\* Variant: applyForConnectedState that does not look for the pending id in the quorum.
CanPromoteIgnoringQuorum(h) ==
    /\ h.pendingClientId # h.clientId
    /\ h.pendingClientId # NoClient
    /\ ~WaitingForLeaveOp(h)

\* applyForConnectedState: the condition under which the state moves to Connected.
CanPromote(h) ==
    /\ h.pendingClientId # h.clientId
    /\ h.pendingClientId # NoClient
    /\ InQuorum(h, h.pendingClientId)
    /\ ~WaitingForLeaveOp(h)


\* Variant: applyForConnectedState that hands its source on as the transition's reason.
ApplyForConnectedStateReasonIsSource(h, source) ==
    IF ~h.quorumInit
    THEN Fail(h, "0x236")
    ELSE IF ~(WaitingForLeaveOp(h) = FALSE \/ OldClientInQuorum(h))
    THEN Fail(h, "0x2e2")
    ELSE IF CanPromote(h)
    THEN SetConnectionState(EndWaitEvent(h, source), "Connected", source)
    ELSE Log(h, "connectedStateRejected")

\* Variant: applyForConnectedState that gives up the connection attempt when it
\* rejects the promotion.
ApplyForConnectedStateRejectDropsPending(h, source) ==
    IF ~h.quorumInit
    THEN Fail(h, "0x236")
    ELSE IF ~(WaitingForLeaveOp(h) = FALSE \/ OldClientInQuorum(h))
    THEN Fail(h, "0x2e2")
    ELSE IF CanPromote(h)
    THEN SetConnectionState(EndWaitEvent(h, source), "Connected", "none")
    ELSE Log([h EXCEPT !.pendingClientId = NoClient], "connectedStateRejected")

\* applyForConnectedState(source)
ApplyForConnectedState(h, source) ==
    IF ~h.quorumInit
    THEN Fail(h, "0x236")
    ELSE IF ~(WaitingForLeaveOp(h) = FALSE \/ OldClientInQuorum(h))
    THEN Fail(h, "0x2e2")
    ELSE IF CanPromote(h)
    THEN SetConnectionState(EndWaitEvent(h, source), "Connected", "none")
    ELSE Log(h, "connectedStateRejected")

(* ---------------------------------------------------------------------- *)
(* ConnectionStateHandler: operations, event listeners, timer callbacks    *)
(* ---------------------------------------------------------------------- *)


\* Variant: receivedConnectEvent that takes an absent quorum for "join op processed".
WaitingForJoinOpQuorumPresent(h, writeConnection) ==
    writeConnection /\ h.quorumInit /\ h.pendingClientId \notin h.quorum

\* Variant: receivedConnectEvent that waits for the join op of a read connection too.
WaitingForJoinOpAnyMode(h, writeConnection) == ~InQuorum(h, h.pendingClientId)

\* receivedConnectEvent: whether the join op of the new write connection is still due.
WaitingForJoinOp(h, writeConnection) ==
    writeConnection /\ ~InQuorum(h, h.pendingClientId)

\* receivedConnectEvent(connectionMode, details)
ReceivedConnectEvent(h, connectionMode, id) ==
    LET oldState == h.connectionState
        h1 == [h EXCEPT !.connectionState = "CatchingUp"]
        writeConnection == connectionMode = "write"
    IN  IF ~(~h1.shouldJoinWrite \/ writeConnection)
        THEN Fail(h1, "0x30a")
        ELSE IF ~(~WaitingForLeaveOp(h1) \/ writeConnection)
        THEN Fail(h1, "0x2a6")
        ELSE LET h2 == Emit([h1 EXCEPT !.pendingClientId = id],
                            "CatchingUp", oldState, "none")
             IN  IF h2.failure # "none"
                 THEN h2
                 ELSE IF WaitingForJoinOp(h2, writeConnection)
                 THEN StartJoinOpTimer(h2)
                 ELSE IF ~WaitingForLeaveOp(h2)
                 THEN SetConnectionState(h2, "Connected", "none")
                 ELSE h2

\* receivedDisconnectEvent(reason)
ReceivedDisconnectEvent(h, reason) == SetConnectionState(h, "Disconnected", reason)

\* receivedAddMemberEvent(clientId)
ReceivedAddMemberEvent(h, id) ==
    IF id = h.pendingClientId
    THEN LET h1 == IF h.joinOpTimer THEN StopJoinOpTimer(h) ELSE Log(h, "ReceivedJoinOp")
             h2 == IF WaitingForLeaveOp(h1) THEN StartWaitEvent(h1) ELSE h1
         IN  ApplyForConnectedState(h2, "addMemberEvent")
    ELSE h


\* Variant: receivedRemoveMemberEvent that stops the timer and does not apply.
ReceivedRemoveMemberEventNoApply(h, id) ==
    IF h.clientId = id THEN TimerClear(h, "prevClientLeftTimer") ELSE h

\* Variant: receivedRemoveMemberEvent that takes the leave of any client for the
\* leave of its own.
ReceivedRemoveMemberEventAnyId(h, id) ==
    ApplyForConnectedState(TimerClear(h, "prevClientLeftTimer"), "removeMemberEvent")

\* Variant: receivedRemoveMemberEvent that applies without stopping the leave wait.
ReceivedRemoveMemberEventKeepsTimer(h, id) ==
    IF h.clientId = id THEN ApplyForConnectedState(h, "removeMemberEvent") ELSE h

\* Variant: receivedRemoveMemberEvent that takes the leave of its own client for the
\* end of the wait and reports Connected itself, without applyForConnectedState.
ReceivedRemoveMemberEventReportsConnected(h, id) ==
    IF h.clientId = id
    THEN LET h1 == TimerClear(h, "prevClientLeftTimer")
         IN  Emit(PromoteClientId([h1 EXCEPT !.connectionState = "Connected"]),
                  "Connected", h.connectionState, "none")
    ELSE h

\* receivedRemoveMemberEvent(clientId)
ReceivedRemoveMemberEvent(h, id) ==
    IF h.clientId = id
    THEN ApplyForConnectedState(TimerClear(h, "prevClientLeftTimer"), "removeMemberEvent")
    ELSE h

\* Variant: containerSaved that stops the leave wait and does not apply.
ContainerSavedCallNoApply(h) ==
    IF WaitingForLeaveOp(h) THEN TimerClear(h, "prevClientLeftTimer") ELSE h

\* containerSaved()
ContainerSavedCall(h) ==
    IF WaitingForLeaveOp(h)
    THEN ApplyForConnectedState(TimerClear(h, "prevClientLeftTimer"), "containerSaved")
    ELSE h


\* Variant: a prevClientLeftTimer callback that checks the state and does not apply.
PrevClientLeftCallbackNoApply(h) ==
    IF ~(h.connectionState # "Connected") THEN Fail(h, "0x2ac") ELSE h

\* The prevClientLeftTimer callback.
PrevClientLeftCallback(h) ==
    IF ~(h.connectionState # "Connected")
    THEN Fail(h, "0x2ac")
    ELSE ApplyForConnectedState(h, "timeout")

\* Variant: a joinOpTimer callback that logs nothing.
JoinOpCallbackSilent(h) == h

\* The joinOpTimer callback.
JoinOpCallback(h) ==
    IF h.connectionState # "CatchingUp" THEN h ELSE Log(h, "NoJoinOp")

\* Variant: initProtocol that does not begin a leave wait.
InitProtocolCallNoWait(h) == h

\* initProtocol(protocol), after the quorum has been installed with its members.
InitProtocolCall(h) ==
    IF h.clientId # NoClient /\ InQuorum(h, h.clientId)
    THEN TimerRestart(h, "prevClientLeftTimer")
    ELSE h

\* dispose()
DisposeCall(h) ==
    IF ~(~h.joinOpTimer)
    THEN Fail(h, "0x2a5")
    ELSE TimerClear(h, "prevClientLeftTimer")

(* ---------------------------------------------------------------------- *)
(* BatchManager (container-runtime/src/batchManager.ts)                     *)
(* ---------------------------------------------------------------------- *)

\* An array slot that holds no element (what assigning a larger length creates).
Hole == [id |-> 0, contents |-> Undefined]

NoOptions == [hardLimit |-> 0, softLimit |-> Undefined, minimumBatchSizeInBytes |-> Undefined]

\* The object checkpoint() returns on batch b: startPoint is what rollback reads; the
\* other fields keep what the batch held at the call and the messages pushed since
\* that no rollback has passed to process.
NewCheckpoint(b) ==
    [startPoint |-> Len(b.pendingBatch), batchAt |-> b.pendingBatch,
     sizeAt |-> b.batchContentSize, pushedSince |-> <<>>]

CurBatch ==
    [pendingBatch |-> pendingBatch, batchContentSize |-> batchContentSize,
     options |-> options, pushResult |-> pushResult, popResult |-> popResult,
     processed |-> processed, failure |-> batchFailure]

\* message.contents?.length ?? 0
ContentLength(message) == IF message.contents = Undefined THEN 0 ELSE message.contents

\* compressionOptions?.minimumBatchSizeInBytes ?? Infinity
MinimumBatchSizeInBytes(o) ==
    IF o.minimumBatchSizeInBytes = Undefined THEN Infinity ELSE o.minimumBatchSizeInBytes

\* get length()
BatchLength(b) == Len(b.pendingBatch)

\* get empty()
BatchEmpty(b) == Len(b.pendingBatch) = 0

\* A push that also applies the soft limit to the first message of a batch.
PushSoftLimitOnEmpty(b, message) ==
    LET contentSize == b.batchContentSize + ContentLength(message)
        opCount == Len(b.pendingBatch)
        socketMessageSize == contentSize + EnvelopeSize * opCount
    IN  IF /\ b.options.softLimit # Undefined
           /\ socketMessageSize >= b.options.softLimit
           /\ MinimumBatchSizeInBytes(b.options) = Infinity
        THEN [b EXCEPT !.pushResult = FALSE]
        ELSE IF /\ socketMessageSize >= b.options.hardLimit
                /\ MinimumBatchSizeInBytes(b.options) = Infinity
        THEN [b EXCEPT !.pushResult = FALSE]
        ELSE [b EXCEPT !.batchContentSize = contentSize,
                       !.pendingBatch = Append(@, message),
                       !.pushResult = TRUE]

\* push(message)
Push(b, message) ==
    LET contentSize == b.batchContentSize + ContentLength(message)
        opCount == Len(b.pendingBatch)
        socketMessageSize == contentSize + EnvelopeSize * opCount
    IN  IF /\ b.options.softLimit # Undefined
           /\ BatchLength(b) > 0
           /\ socketMessageSize >= b.options.softLimit
           /\ MinimumBatchSizeInBytes(b.options) = Infinity
        THEN [b EXCEPT !.pushResult = FALSE]
        ELSE IF /\ socketMessageSize >= b.options.hardLimit
                /\ MinimumBatchSizeInBytes(b.options) = Infinity
        THEN [b EXCEPT !.pushResult = FALSE]
        ELSE [b EXCEPT !.batchContentSize = contentSize,
                       !.pendingBatch = Append(@, message),
                       !.pushResult = TRUE]

\* popBatch(): the batch goes through the compressor when compression is configured
\* and the batch is larger than its minimum size.
PopBatch(b) ==
    LET batch == b.pendingBatch
        size == b.batchContentSize
        compress == /\ Len(batch) > 0
                    /\ b.options.minimumBatchSizeInBytes # Undefined
                    /\ b.options.minimumBatchSizeInBytes # Infinity
                    /\ b.options.minimumBatchSizeInBytes < size
    IN  [b EXCEPT !.pendingBatch = <<>>,
                  !.batchContentSize = 0,
                  !.popResult = [compressed |-> compress, batch |-> batch]]

\* The loop of rollback: from the last slot down to startPoint, take the message's
\* length off the tracked size and pass the message to process. Reading contents of
\* an empty slot throws.
RECURSIVE RollbackLoop(_, _, _)
RollbackLoop(b, i, startPoint) ==
    IF i > startPoint
    THEN LET message == b.pendingBatch[i]
         IN  IF message = Hole
             THEN [b EXCEPT !.failure = "TypeError"]
             ELSE RollbackLoop([b EXCEPT !.batchContentSize = @ - ContentLength(message),
                                         !.processed = Append(@, message)],
                               i - 1, startPoint)
    ELSE b

\* array.length = n: a longer array is cut, a shorter one gets empty slots.
SetLength(array, n) == [k \in 1 .. n |-> IF k <= Len(array) THEN array[k] ELSE Hole]

\* checkpoint().rollback(process)
Rollback(b, startPoint) ==
    LET looped == RollbackLoop([b EXCEPT !.processed = <<>>], Len(b.pendingBatch), startPoint)
    IN  IF looped.failure # "none" THEN looped
        ELSE [looped EXCEPT !.pendingBatch = SetLength(@, startPoint)]

CommitBatch(b) ==
    /\ pendingBatch' = b.pendingBatch
    /\ batchContentSize' = b.batchContentSize
    /\ options' = b.options
    /\ pushResult' = b.pushResult
    /\ popResult' = b.popResult
    /\ processed' = b.processed
    /\ batchFailure' = b.failure

\* No BatchManager has been constructed yet.
NoBatchManager ==
    /\ pendingBatch = <<>>
    /\ batchContentSize = 0
    /\ options = NoOptions
    /\ pushResult = FALSE
    /\ popResult = [compressed |-> FALSE, batch |-> <<>>]
    /\ processed = <<>>
    /\ batchFailure = "none"
    /\ checkpoints = <<>>
    /\ rolledBack = 0
    /\ lastPushed = Hole
    /\ pushCount = 0
    /\ lastBatchOp = "none"

BatchLive == lastBatchOp # "none" /\ batchFailure = "none"

\* new BatchManager(options)
BatchNew ==
    /\ lastBatchOp = "none"
    /\ \E o \in BatchOptions : CommitBatch([CurBatch EXCEPT !.options = o])
    /\ lastBatchOp' = "new"
    /\ UNCHANGED <<checkpoints, rolledBack, lastPushed, pushCount, outsideBatch>>

\* push(message)
BatchPush ==
    /\ BatchLive
    /\ pushCount < MaxPushes
    /\ \E c \in ContentLengths :
          LET message == [id |-> pushCount + 1, contents |-> c]
              b == Push(CurBatch, message)
          IN  /\ CommitBatch(b)
              /\ lastPushed' = message
              /\ checkpoints' = IF b.pushResult
                                THEN [k \in 1 .. Len(checkpoints) |->
                                         [checkpoints[k] EXCEPT
                                             !.pushedSince = Append(@, message)]]
                                ELSE checkpoints
    /\ pushCount' = pushCount + 1
    /\ lastBatchOp' = "push"
    /\ UNCHANGED <<rolledBack, outsideBatch>>

\* popBatch()
BatchPopBatch ==
    /\ BatchLive
    /\ CommitBatch(PopBatch(CurBatch))
    /\ lastBatchOp' = "popBatch"
    /\ UNCHANGED <<checkpoints, rolledBack, lastPushed, pushCount, outsideBatch>>

\* checkpoint()
BatchCheckpoint ==
    /\ BatchLive
    /\ Len(checkpoints) < MaxCheckpoints
    /\ checkpoints' = Append(checkpoints, NewCheckpoint(CurBatch))
    /\ lastBatchOp' = "checkpoint"
    /\ UNCHANGED <<pendingBatch, batchContentSize, options, pushResult, popResult,
                   processed, batchFailure, rolledBack, lastPushed, pushCount,
                   outsideBatch>>

\* rollback(process) on any checkpoint object taken so far
BatchRollback ==
    /\ BatchLive
    /\ \E k \in 1 .. Len(checkpoints) :
          LET b == Rollback(CurBatch, checkpoints[k].startPoint)
          IN  /\ CommitBatch(b)
              /\ rolledBack' = k
              /\ checkpoints' = [j \in 1 .. Len(checkpoints) |->
                                    [checkpoints[j] EXCEPT !.pushedSince =
                                        SelectSeq(@, LAMBDA message :
                                            \A n \in 1 .. Len(b.processed) :
                                                b.processed[n] # message)]]
    /\ lastBatchOp' = "rollback"
    /\ UNCHANGED <<lastPushed, pushCount, outsideBatch>>

(* ---------------------------------------------------------------------- *)
(* The deli message loop (processMessages)                                  *)
(* ---------------------------------------------------------------------- *)

\* processMessages(...): the listener is installed and no message has arrived.
ProcessMessages ==
    /\ nextOffset = 0
    /\ ticketed = [o \in {} |-> "a"]
    /\ resolved = {}
    /\ ticketQueue = [id \in ObjectIds |-> Undefined]
    /\ dispensers = {}
    /\ recorded = Undefined
    /\ committed = Undefined
    /\ mongo = {}
    /\ callbacks = {}
    /\ lastDeliOp = "none"

\* _.values(ticketQueue)
QueuedTickets(queue) == {queue[id] : id \in ObjectIds} \ {Undefined}

\* A message that is neither UpdateReferenceSequenceNumber nor RawOperation arrives:
\* the callback does nothing.
DeliOtherMessage ==
    /\ nextOffset <= MaxOffset
    /\ nextOffset' = nextOffset + 1
    /\ lastDeliOp' = "other"
    /\ UNCHANGED <<ticketed, resolved, ticketQueue, dispensers, recorded, committed,
                   mongo, callbacks, outsideDeli>>

\* An object message arrives: the callback runs to its end, or to its first await.
DeliObjectMessage ==
    /\ nextOffset <= MaxOffset
    /\ \E objectId \in ObjectIds :
          LET offset == nextOffset
              queue == [ticketQueue EXCEPT ![objectId] = offset]
          IN  /\ dispensers' = dispensers \cup {objectId}
              /\ ticketed' = [o \in DOMAIN ticketed \cup {offset} |->
                                 IF o = offset THEN objectId ELSE ticketed[o]]
              /\ recorded' = offset
              /\ IF offset % CheckpointBatchSize = 0
                 THEN /\ ticketQueue' = [id \in ObjectIds |-> Undefined]
                      /\ callbacks' = callbacks \cup
                            {[offset |-> offset, awaiting |-> "tickets",
                              pendingTickets |-> QueuedTickets(queue), covered |-> {}]}
                 ELSE /\ ticketQueue' = queue
                      /\ callbacks' = callbacks
    /\ nextOffset' = nextOffset + 1
    /\ lastDeliOp' = "message"
    /\ UNCHANGED <<resolved, committed, mongo, outsideDeli>>

\* The promise dispenser.ticket returned for a message is resolved.
DeliTicketResolved ==
    /\ \E offset \in DOMAIN ticketed \ resolved : resolved' = resolved \cup {offset}
    /\ lastDeliOp' = "ticketResolved"
    /\ UNCHANGED <<nextOffset, ticketed, ticketQueue, dispensers, recorded, committed,
                   mongo, callbacks, outsideDeli>>

\* await Promise.all(pendingTickets) returns: the callback asks every dispenser for a
\* checkpoint, which covers the tickets the dispenser has resolved by then.
DeliCheckpointDispensers ==
    /\ \E callback \in callbacks :
          /\ callback.awaiting = "tickets"
          /\ callback.pendingTickets \subseteq resolved
          /\ callbacks' = (callbacks \ {callback}) \cup
                {[callback EXCEPT !.awaiting = "checkpoints", !.covered = resolved]}
    /\ lastDeliOp' = "checkpointDispensers"
    /\ UNCHANGED <<nextOffset, ticketed, resolved, ticketQueue, dispensers, recorded,
                   committed, mongo, outsideDeli>>

\* await Promise.all(checkpointQueue) returns: the dispenser checkpoints are in Mongo
\* and the callback calls partitionManager.checkPoint().
DeliCheckPoint ==
    /\ \E callback \in callbacks :
          /\ callback.awaiting = "checkpoints"
          /\ mongo' = mongo \cup callback.covered
          /\ callbacks' = callbacks \ {callback}
    /\ committed' = recorded
    /\ lastDeliOp' = "checkPoint"
    /\ UNCHANGED <<nextOffset, ticketed, resolved, ticketQueue, dispensers, recorded,
                   outsideDeli>>

(* ---------------------------------------------------------------------- *)
(* The state machine                                                       *)
(* ---------------------------------------------------------------------- *)

\* Number of transitions to Connected in a step's emissions.
ConnectedEmissions(em) == Cardinality({i \in 1 .. Len(em) : em[i][1] = "Connected"})

\* A session takes events until an assertion throws or it is disposed.
Live == failure = "none" /\ ~disposed

\* The step that led here delivered a signal that ends the leave wait for `old`.
LeaveSignal(op, old) ==
    \/ op.op \in {"leaveTimeout", "containerSaved"}
    \/ op.op = "removeMember" /\ op.id = old

\* Connected transitions the owner has received for the latest connection attempt,
\* an attempt starting with the transition to CatchingUp.
ForwardedPromotions(before, fw) ==
    LET starts == {i \in 1 .. Len(fw) : fw[i][1] = "CatchingUp"}
    IN  IF starts = {}
        THEN before + ConnectedEmissions(fw)
        ELSE Cardinality({i \in 1 .. Len(fw) :
                            fw[i][1] = "Connected" /\ \A j \in starts : j < i})

\* A step's telemetry holds the event eventName.
Logged(log, eventName) == \E k \in 1 .. Len(log) : log[k] = eventName

\* The operation of the step, where it leaves the wait for the leave of the
\* constructor's client id that initProtocol began, and whether the connection attempt
\* under way has logged NoJoinOp and still waits for its Join.
Record(o, i) ==
    /\ lastOp' = [op |-> o, id |-> i]
    /\ initialLeaveWait' =
          IF clientId # InitialId
          THEN "none"
          ELSE IF o = "initProtocol"
          THEN IF InitialId \in quorum' THEN "waiting" ELSE "none"
          ELSE IF initialLeaveWait = "waiting" /\ LeaveSignal([op |-> o, id |-> i], clientId)
          THEN "ended"
          ELSE initialLeaveWait
    /\ noJoinOpSeen' =
          IF Logged(diags', "NoJoinOp")
          THEN TRUE
          ELSE IF o = "connect" \/ pendingClientId' = NoClient
                  \/ (o = "addMember" /\ i = pendingClientId)
          THEN FALSE
          ELSE noJoinOpSeen

\* The fields written by a handler call that ended in h.
Commit(h) ==
    /\ connectionState' = h.connectionState
    /\ clientId' = h.clientId
    /\ pendingClientId' = h.pendingClientId
    /\ prevClientLeftTimer' = h.prevClientLeftTimer
    /\ joinOpTimer' = h.joinOpTimer
    /\ quorumInit' = h.quorumInit
    /\ quorum' = h.quorum
    /\ shouldHaveLeft' = h.shouldHaveLeft
    /\ shouldJoinWrite' = h.shouldJoinWrite
    /\ failure' = h.failure
    /\ emitted' = h.emitted
    /\ diags' = h.diags
    /\ waitEvent' = h.waitEvent
    /\ waitEnds' = h.waitEnds
    /\ prevEmitted' = IF emitted = <<>> THEN prevEmitted ELSE emitted[Len(emitted)][1]
    /\ timerCalls' = h.timerCalls
    /\ bestEffortCancel' = h.bestEffortCancel
    /\ queuedCallbacks' = h.queuedCallbacks
    /\ wait' = h.wait
    /\ gateState' = h.gateState
    /\ catchUpMonitor' = h.catchUpMonitor
    /\ forwarded' = h.forwarded
    /\ opsBehind' = h.opsBehind
    /\ forwardedPromotions' = ForwardedPromotions(forwardedPromotions, h.forwarded)
    /\ prevForwarded' = IF forwarded = <<>> THEN prevForwarded ELSE forwarded[Len(forwarded)][1]
    /\ UNCHANGED outsideHandler

\* createConnectionStateHandlerCore(wait, inputs, deltaManager, clientId?) on a runtime
\* whose timer cancellation is exact or best effort.
Constructed(withGate, lateCallbacks) ==
    /\ connectionState = "Disconnected"
    /\ clientId \in {NoClient, InitialId}
    /\ pendingClientId = NoClient
    /\ prevClientLeftTimer = FALSE
    /\ joinOpTimer = FALSE
    /\ quorumInit = FALSE
    /\ quorum = {}
    /\ shouldHaveLeft = {}
    /\ shouldJoinWrite \in BOOLEAN
    /\ failure = "none"
    /\ disposed = FALSE
    /\ emitted = <<>>
    /\ diags = <<>>
    /\ waitEvent = FALSE
    /\ waitEnds = <<>>
    /\ everJoined = {}
    /\ readIds = {}
    /\ nextId = 1
    /\ connMode = "none"
    /\ lastConnId = NoClient
    /\ lastOp = [op |-> "new", id |-> NoClient]
    /\ prevEmitted = "Disconnected"
    /\ promotions = 0
    /\ timerCalls = <<>>
    /\ bestEffortCancel = lateCallbacks
    /\ queuedCallbacks = {}
    /\ wait = withGate
    /\ gateState = "Disconnected"
    /\ catchUpMonitor = NoMonitor
    /\ forwarded = <<>>
    /\ opsBehind = 0
    /\ forwardedPromotions = 0
    /\ initialLeaveWait = "none"
    /\ noJoinOpSeen = FALSE
    /\ prevForwarded = "Disconnected"
    /\ NoBatchManager
    /\ ProcessMessages

\* new ConnectionStateHandler(inputs, clientId?)
Init == Constructed(FALSE, FALSE)

\* The same handler on a runtime that may run a timer callback queued before clear().
InitLateCallbacks == Constructed(FALSE, TRUE)

\* new ConnectionStateCatchup(inputs, pimplFactory, deltaManager)
InitGate == Constructed(TRUE, FALSE)

\* The transport reports a live connection with a fresh client id. Only a write
\* connection's id has a Join, which the quorum may have processed already.
ConnectStep(mode) ==
    /\ Live
    /\ nextId <= MaxConnects
    /\ mode = "read" => nextId \notin everJoined
    /\ readIds' = IF mode = "read" THEN readIds \cup {nextId} ELSE readIds
    /\ LET h == ReceivedConnectEvent(Cur, mode, nextId)
       IN  /\ Commit(h)
           /\ promotions' = ConnectedEmissions(h.emitted)
    /\ nextId' = nextId + 1
    /\ connMode' = mode
    /\ lastConnId' = nextId
    /\ Record("connect", nextId)
    /\ UNCHANGED <<disposed, everJoined>>

\* receivedConnectEvent delivered as its contract requires: in state Disconnected.
OnConnect(mode) ==
    /\ connectionState = "Disconnected"
    /\ ConnectStep(mode)

\* The transport reports the loss of the connection.
OnDisconnect ==
    /\ Live
    /\ LET h == ReceivedDisconnectEvent(Cur, "disconnect")
       IN  /\ Commit(h)
           /\ promotions' = promotions + ConnectedEmissions(h.emitted)
    /\ Record("disconnect", NoClient)
    /\ UNCHANGED <<disposed, everJoined, readIds, nextId, connMode, lastConnId>>

\* The quorum processes the Join of id and raises "addMember".
AddMember(id) ==
    /\ Live
    /\ quorumInit
    /\ id \notin everJoined
    /\ id \notin readIds
    /\ LET h == ReceivedAddMemberEvent([Cur EXCEPT !.quorum = @ \cup {id}], id)
       IN  /\ Commit(h)
           /\ promotions' = promotions + ConnectedEmissions(h.emitted)
    /\ everJoined' = everJoined \cup {id}
    /\ Record("addMember", id)
    /\ UNCHANGED <<disposed, readIds, nextId, connMode, lastConnId>>

\* The quorum processes the Leave of id and raises "removeMember".
RemoveMember(id) ==
    /\ Live
    /\ quorumInit
    /\ id \in quorum
    /\ LET h == ReceivedRemoveMemberEvent(
                    [Cur EXCEPT !.quorum = @ \ {id}, !.shouldHaveLeft = @ \ {id}], id)
       IN  /\ Commit(h)
           /\ promotions' = promotions + ConnectedEmissions(h.emitted)
    /\ Record("removeMember", id)
    /\ UNCHANGED <<disposed, everJoined, readIds, nextId, connMode, lastConnId>>

\* The owner reports that the container has no unsaved changes.
ContainerSaved ==
    /\ Live
    /\ LET h == ContainerSavedCall(Cur)
       IN  /\ Commit(h)
           /\ promotions' = promotions + ConnectedEmissions(h.emitted)
    /\ Record("containerSaved", NoClient)
    /\ UNCHANGED <<disposed, everJoined, readIds, nextId, connMode, lastConnId>>

\* prevClientLeftTimer expires.
PrevClientLeftTimerFire ==
    /\ Live
    /\ prevClientLeftTimer
    /\ LET h == PrevClientLeftCallback(TimerExpired(Cur, "prevClientLeftTimer"))
       IN  /\ Commit(h)
           /\ promotions' = promotions + ConnectedEmissions(h.emitted)
    /\ Record("leaveTimeout", NoClient)
    /\ UNCHANGED <<disposed, everJoined, readIds, nextId, connMode, lastConnId>>

\* joinOpTimer expires.
JoinOpTimerFire ==
    /\ Live
    /\ joinOpTimer
    /\ LET h == JoinOpCallback(TimerExpired(Cur, "joinOpTimer"))
       IN  /\ Commit(h)
           /\ promotions' = promotions + ConnectedEmissions(h.emitted)
    /\ Record("joinTimeout", NoClient)
    /\ UNCHANGED <<disposed, everJoined, readIds, nextId, connMode, lastConnId>>

\* The protocol handler is created with the quorum `members` and handed to initProtocol.
\* The quorum holds clients that joined: no id of a read connection.
InitProtocol(members) ==
    /\ Live
    /\ ~quorumInit
    /\ members \cap readIds = {}
    /\ LET h == InitProtocolCall([Cur EXCEPT !.quorumInit = TRUE, !.quorum = members])
       IN  /\ Commit(h)
           /\ promotions' = promotions + ConnectedEmissions(h.emitted)
    /\ everJoined' = members
    /\ Record("initProtocol", NoClient)
    /\ UNCHANGED <<disposed, readIds, nextId, connMode, lastConnId>>

\* The owner's answer to shouldClientJoinWrite() changes (ops sent or acknowledged).
OwnerOpsChange ==
    /\ Live
    /\ Commit([Cur EXCEPT !.shouldJoinWrite = ~@])
    /\ Record("opsChange", NoClient)
    /\ UNCHANGED <<disposed, everJoined, readIds, nextId, connMode, lastConnId, promotions>>

\* dispose()
Dispose ==
    /\ Live
    /\ Commit(DisposeCall(Cur))
    /\ disposed' = TRUE
    /\ Record("dispose", NoClient)
    /\ UNCHANGED <<everJoined, readIds, nextId, connMode, lastConnId, promotions>>

\* A joinOpTimer callback that was queued before the timer was cleared runs; the
\* callback does not look at dispose().
LateJoinOpCallback ==
    /\ failure = "none"
    /\ "joinOpTimer" \in queuedCallbacks
    /\ LET h == JoinOpCallback([Cur EXCEPT !.queuedCallbacks = @ \ {"joinOpTimer"}])
       IN  /\ Commit(h)
           /\ promotions' = promotions + ConnectedEmissions(h.emitted)
    /\ Record("lateJoinCallback", NoClient)
    /\ UNCHANGED <<disposed, everJoined, readIds, nextId, connMode, lastConnId>>

\* A prevClientLeftTimer callback that was queued before the timer was cleared runs;
\* the callback does not look at dispose().
LatePrevClientLeftCallback ==
    /\ failure = "none"
    /\ "prevClientLeftTimer" \in queuedCallbacks
    /\ LET h == PrevClientLeftCallback(
                    [Cur EXCEPT !.queuedCallbacks = @ \ {"prevClientLeftTimer"}])
       IN  /\ Commit(h)
           /\ promotions' = promotions + ConnectedEmissions(h.emitted)
    /\ Record("lateLeaveCallback", NoClient)
    /\ UNCHANGED <<disposed, everJoined, readIds, nextId, connMode, lastConnId>>

\* The delta stream learns of an op that has been sequenced.
OpKnown ==
    /\ failure = "none"
    /\ opsBehind < MaxBehind
    /\ Commit([Cur EXCEPT !.opsBehind = @ + 1])
    /\ Record("opKnown", NoClient)
    /\ UNCHANGED <<disposed, everJoined, readIds, nextId, connMode, lastConnId, promotions>>

\* The delta stream processes the next known op and raises "op".
OpProcessed ==
    /\ failure = "none"
    /\ opsBehind > 0
    /\ Commit(MonitorOp([Cur EXCEPT !.opsBehind = @ - 1]))
    /\ Record("opProcessed", NoClient)
    /\ UNCHANGED <<disposed, everJoined, readIds, nextId, connMode, lastConnId, promotions>>

\* The monitor, having reached its target, calls its one-shot "caughtUp" listener.
CaughtUpSignal ==
    /\ failure = "none"
    /\ catchUpMonitor.listener
    /\ CaughtUp(Cur)
    /\ Commit(TransitionToConnectedState(MonitorEmit(Cur)))
    /\ Record("caughtUp", NoClient)
    /\ UNCHANGED <<disposed, everJoined, readIds, nextId, connMode, lastConnId, promotions>>

Next ==
    \/ \E mode \in ConnectionModes : OnConnect(mode)
    \/ OnDisconnect
    \/ \E id \in ClientIds : AddMember(id)
    \/ \E id \in ClientIds : RemoveMember(id)
    \/ ContainerSaved
    \/ PrevClientLeftTimerFire
    \/ JoinOpTimerFire
    \/ \E members \in SUBSET ClientIds : InitProtocol(members)
    \/ OwnerOpsChange
    \/ Dispose

Spec == Init /\ [][Next]_vars

\* An armed prevClientLeftTimer expires unless it is cleared first.
SpecLive == Spec /\ WF_vars(PrevClientLeftTimerFire)

\* The transport calls receivedConnectEvent in any state.
NextAnyConnect ==
    \/ \E mode \in ConnectionModes : ConnectStep(mode)
    \/ OnDisconnect
    \/ \E id \in ClientIds : AddMember(id)
    \/ \E id \in ClientIds : RemoveMember(id)
    \/ ContainerSaved
    \/ PrevClientLeftTimerFire
    \/ JoinOpTimerFire
    \/ \E members \in SUBSET ClientIds : InitProtocol(members)
    \/ OwnerOpsChange
    \/ Dispose

SpecAnyConnect == Init /\ [][NextAnyConnect]_vars

\* Callbacks of cleared timers may still be delivered.
NextLateCallbacks ==
    \/ \E mode \in ConnectionModes : OnConnect(mode)
    \/ OnDisconnect
    \/ \E id \in ClientIds : AddMember(id)
    \/ \E id \in ClientIds : RemoveMember(id)
    \/ ContainerSaved
    \/ PrevClientLeftTimerFire
    \/ JoinOpTimerFire
    \/ \E members \in SUBSET ClientIds : InitProtocol(members)
    \/ OwnerOpsChange
    \/ Dispose
    \/ LateJoinOpCallback
    \/ LatePrevClientLeftCallback

SpecLateCallbacks == InitLateCallbacks /\ [][NextLateCallbacks]_vars

\* The handler behind the catch-up adapter, with the delta stream it watches.
NextGate ==
    \/ \E mode \in ConnectionModes : OnConnect(mode)
    \/ OnDisconnect
    \/ \E id \in ClientIds : AddMember(id)
    \/ \E id \in ClientIds : RemoveMember(id)
    \/ ContainerSaved
    \/ PrevClientLeftTimerFire
    \/ JoinOpTimerFire
    \/ \E members \in SUBSET ClientIds : InitProtocol(members)
    \/ OwnerOpsChange
    \/ Dispose
    \/ OpKnown
    \/ OpProcessed
    \/ CaughtUpSignal

SpecGate == InitGate /\ [][NextGate]_vars

\* Once the monitor has reached its target it calls a registered listener.
SpecGateLive == SpecGate /\ WF_vars(CaughtUpSignal)

\* A BatchManager and its caller.
NextBatch ==
    \/ BatchNew
    \/ BatchPush
    \/ BatchPopBatch
    \/ BatchCheckpoint
    \/ BatchRollback

\* The connection handler takes no step here: its constructor arguments are fixed.
InitBatch == Init /\ clientId = NoClient /\ ~shouldJoinWrite

SpecBatch == InitBatch /\ [][NextBatch]_vars

\* The deli message loop, its consumer group, dispensers and partition manager.
NextDeli ==
    \/ DeliOtherMessage
    \/ DeliObjectMessage
    \/ DeliTicketResolved
    \/ DeliCheckpointDispensers
    \/ DeliCheckPoint

SpecDeli == Init /\ [][NextDeli]_vars

(* ---------------------------------------------------------------------- *)
(* Properties                                                              *)
(* ---------------------------------------------------------------------- *)

\* The transition graph of ConnectionState, as <<old, new>>.
LegalTransitions ==
    {<<"Disconnected", "CatchingUp">>, <<"CatchingUp", "Connected">>,
     <<"CatchingUp", "Disconnected">>, <<"Connected", "Disconnected">>}


\* The step that led here delivered the Join of `pending`.
JoinSignal(op, pending) == op.op = "addMember" /\ op.id = pending

\* C1: with receivedConnectEvent delivered only in Disconnected, the transitions
\* delivered to connectionStateChanged form a walk on the legal transition graph
\* (each is a legal edge and starts where the previous one ended), and
\* setConnectionState(Connected) is never entered from a state other than CatchingUp.
C1_EmittedWalk ==
    /\ \A i \in 1 .. Len(emitted) :
          /\ <<emitted[i][2], emitted[i][1]>> \in LegalTransitions
          /\ emitted[i][2] = IF i = 1 THEN prevEmitted ELSE emitted[i - 1][1]
    /\ failure # "0x1d8"

\* A reconnect promoted by the old client's leave, after an earlier Connected.
C1_Witness ==
    /\ lastOp.op = "removeMember"
    /\ emitted = <<<<"Connected", "CatchingUp", "none">>>>
    /\ prevEmitted = "CatchingUp"
    /\ lastConnId >= 2

\* C2: no transition to Connected is delivered while prevClientLeftTimer is armed; a
\* step that starts with the leave wait armed delivers Connected only if it is the
\* removeMember of clientId, the expiry of prevClientLeftTimer or containerSaved.
C2_NoPromotionWhileLeaveWait ==
    [][ConnectedEmissions(emitted') > 0 =>
         /\ ~prevClientLeftTimer'
         /\ prevClientLeftTimer => LeaveSignal(lastOp', clientId)]_vars

\* The Join of the pending id arrived with the leave wait armed and did not promote.
C2_Witness ==
    /\ JoinSignal(lastOp, pendingClientId)
    /\ prevClientLeftTimer
    /\ connectionState = "CatchingUp"
    /\ emitted = <<>>
    /\ pendingClientId \in quorum

\* C3: a write connection is promoted to Connected only while its pending client id
\* is a member of an installed quorum.
C3_WritePromotionNeedsJoin ==
    (ConnectedEmissions(emitted) > 0 /\ connMode = "write") =>
        (quorumInit /\ pendingClientId \in quorum)

\* The join timer of a write connection fired and the connection was not promoted.
C3_Witness ==
    /\ lastOp.op = "joinTimeout"
    /\ connMode = "write"
    /\ connectionState = "CatchingUp"
    /\ quorumInit
    /\ pendingClientId \notin quorum
    /\ ~prevClientLeftTimer
    /\ emitted = <<>>

\* C4: at most one transition to Connected is delivered between a
\* receivedConnectEvent and the next one, whatever events follow the promotion.
C4_AtMostOnePromotion == promotions <= 1

\* After the promotion the live client left the quorum; nothing was promoted again.
C4_Witness ==
    /\ promotions = 1
    /\ connectionState = "Connected"
    /\ lastOp.op = "removeMember"
    /\ lastOp.id = clientId
    /\ emitted = <<>>

\* C5: for a write connection in CatchingUp, the first of {Join of the pending id,
\* leave-completing signal} delivers no Connected transition and the second delivers
\* exactly one, ending in Connected with clientId = the pending id, in either order.
C5_SecondSignalPromotes ==
    [][(connectionState = "CatchingUp" /\ connMode = "write") =>
         LET joined == pendingClientId \in quorum
             join == JoinSignal(lastOp', pendingClientId)
             leave == LeaveSignal(lastOp', clientId)
             promoted == /\ ConnectedEmissions(emitted') = 1
                         /\ connectionState' = "Connected"
                         /\ clientId' = pendingClientId
                         /\ failure' = "none"
         IN  /\ (prevClientLeftTimer /\ ~joined /\ (join \/ leave)) =>
                   (ConnectedEmissions(emitted') = 0 /\ connectionState' = "CatchingUp")
             /\ (prevClientLeftTimer /\ joined /\ leave) => promoted
             /\ (~prevClientLeftTimer /\ ~joined /\ join) => promoted]_vars

\* The Join came after the leave wait had been ended, and promoted the reconnect.
C5_Witness ==
    /\ JoinSignal(lastOp, pendingClientId)
    /\ connMode = "write"
    /\ ConnectedEmissions(emitted) = 1
    /\ clientId = lastConnId
    /\ lastConnId >= 2
    /\ shouldHaveLeft = {}
    /\ diags = <<>>

\* A write connection whose Join has been processed and that waits for the old leave.
C6_JoinedAndWaiting ==
    /\ Live
    /\ connectionState = "CatchingUp"
    /\ connMode = "write"
    /\ quorumInit
    /\ pendingClientId \in quorum
    /\ prevClientLeftTimer

\* C6: a write connection whose Join has been processed and that waits for the old
\* client's leave reaches Connected even if neither the Leave nor containerSaved ever
\* comes, unless it is disconnected or disposed or its own id leaves the quorum
\* first: the expiry of prevClientLeftTimer applies for Connected and that call
\* delivers the transition.
C6_LeaveTimeoutPromotes ==
    /\ C6_JoinedAndWaiting ~>
          \/ connectionState = "Connected"
          \/ connectionState = "Disconnected"
          \/ disposed
          \/ pendingClientId \notin quorum
    /\ [][(C6_JoinedAndWaiting /\ lastOp'.op = "leaveTimeout") =>
             /\ connectionState' = "Connected"
             /\ emitted' = <<<<"Connected", "CatchingUp", "none">>>>
             /\ clientId' = pendingClientId]_vars

\* The leave timer expired for a joined write connection and promoted it.
C6_Witness ==
    /\ lastOp.op = "leaveTimeout"
    /\ connMode = "write"
    /\ connectionState = "Connected"
    /\ ConnectedEmissions(emitted) = 1
    /\ clientId = pendingClientId

\* C7: clientId changes only in a step that delivers a transition to Connected, and
\* the value it takes there is the client id of the latest receivedConnectEvent.
C7_ClientIdChangesOnPromotion ==
    [][/\ clientId' # clientId => ConnectedEmissions(emitted') = 1
       /\ ConnectedEmissions(emitted') > 0 =>
             (clientId' = lastConnId' /\ clientId' = pendingClientId')]_vars

\* A reconnect was promoted by its Join: clientId moved from the old id to the new one.
C7_Witness ==
    /\ JoinSignal(lastOp, pendingClientId)
    /\ ConnectedEmissions(emitted) = 1
    /\ clientId = lastConnId
    /\ lastConnId = 2
    /\ shouldHaveLeft # {}

\* C8: in every reachable state pendingClientId is undefined exactly when the state
\* is Disconnected.
C8_PendingAbsentIffDisconnected ==
    pendingClientId = NoClient <=> connectionState = "Disconnected"

\* C9 as stated: clientId and pendingClientId differ whenever both are defined.
C9_Original ==
    (clientId # NoClient /\ pendingClientId # NoClient) => clientId # pendingClientId

\* C9 amended: clientId and pendingClientId differ whenever both are defined and the
\* state is not Connected; in state Connected the pending id is kept and the two are
\* equal.
C9_IdsDifferUntilPromotion ==
    /\ (connectionState # "Connected" /\ clientId # NoClient /\ pendingClientId # NoClient)
          => clientId # pendingClientId
    /\ connectionState = "Connected" => clientId = pendingClientId

\* A reconnect is catching up with the old id still live and a new id pending.
C9_Witness ==
    /\ connectionState = "CatchingUp"
    /\ clientId = 1
    /\ pendingClientId = 2
    /\ lastOp.op = "connect"

\* C10 as stated: in state Connected clientId is defined and a member of the quorum.
C10_Original ==
    connectionState = "Connected" => (clientId # NoClient /\ quorumInit /\ clientId \in quorum)

\* C10 amended: in state Connected clientId is defined; it is a quorum member when a
\* write connection is promoted, and need not be one for a read connection or after
\* its removeMember has been processed.
C10_ConnectedClientId ==
    connectionState = "Connected" =>
        /\ clientId # NoClient
        /\ (ConnectedEmissions(emitted) > 0 /\ connMode = "write") =>
              (quorumInit /\ clientId \in quorum)

\* A write connection promoted by containerSaved, its id a member of the quorum.
C10_Witness ==
    /\ connectionState = "Connected"
    /\ connMode = "write"
    /\ lastOp.op = "containerSaved"
    /\ ConnectedEmissions(emitted) = 1
    /\ clientId \in quorum

\* C11: whenever joinOpTimer is armed the state is CatchingUp, the connection was made
\* in write mode and the pending client's join has not been observed; in particular
\* the timer is never armed in Disconnected or Connected.
C11_JoinTimerOnlyWhileAwaitingJoin ==
    joinOpTimer =>
        /\ connectionState = "CatchingUp"
        /\ connMode = "write"
        /\ ~JoinSignal(lastOp, pendingClientId)

\* C12 as stated: an armed prevClientLeftTimer implies clientId is present, a quorum
\* member, and shouldClientJoinWrite() is true.
C12_Original ==
    prevClientLeftTimer =>
        (clientId # NoClient /\ quorumInit /\ clientId \in quorum /\ shouldJoinWrite)

\* C12: whenever prevClientLeftTimer is armed, clientId is present and a quorum member;
\* the timer is armed only by a disconnect, and then shouldClientJoinWrite() is true at
\* that moment, or by initProtocol, which does not consult shouldClientJoinWrite().
C12_LeaveTimerArmedForQuorumMember ==
    /\ [](prevClientLeftTimer => (clientId # NoClient /\ quorumInit /\ clientId \in quorum))
    /\ [][(~prevClientLeftTimer /\ prevClientLeftTimer') =>
            \/ lastOp'.op = "disconnect" /\ shouldJoinWrite
            \/ lastOp'.op = "initProtocol"]_vars

\* initProtocol armed the timer for the constructor's client id with no ops outstanding.
C12_Witness ==
    /\ lastOp.op = "initProtocol"
    /\ prevClientLeftTimer
    /\ ~shouldJoinWrite
    /\ clientId = InitialId
    /\ clientId \in quorum

\* C13 as stated: a promotion completed by the leave timer is delivered with reason
\* "timeout", one completed by containerSaved with reason "containerSaved".
C13_Original ==
    /\ (lastOp.op = "leaveTimeout" /\ ConnectedEmissions(emitted) > 0)
           => emitted = <<<<"Connected", "CatchingUp", "timeout">>>>
    /\ (lastOp.op = "containerSaved" /\ ConnectedEmissions(emitted) > 0)
           => emitted = <<<<"Connected", "CatchingUp", "containerSaved">>>>

\* The source applyForConnectedState is called with in the step of operation o.
SourceOf(o) ==
    CASE o = "addMember" -> "addMemberEvent"
      [] o = "removeMember" -> "removeMemberEvent"
      [] o = "containerSaved" -> "containerSaved"
      [] OTHER -> "timeout"

\* C13: every transition to Connected is delivered as (Connected, CatchingUp) with no
\* reason, whichever signal completed the promotion; the source goes to telemetry only:
\* a step that ends the wait span ends it once, with the source of that step.
C13_PromotionHasNoReason ==
    /\ \A i \in 1 .. Len(emitted) :
          emitted[i][1] = "Connected" => emitted[i] = <<"Connected", "CatchingUp", "none">>
    /\ waitEnds # <<>> => waitEnds = <<SourceOf(lastOp.op)>>

\* The leave timer expired and completed the promotion.
C13_Witness ==
    /\ lastOp.op = "leaveTimeout"
    /\ emitted = <<<<"Connected", "CatchingUp", "none">>>>
    /\ connectionState = "Connected"

\* C14: containerSaved() in CatchingUp with the leave wait armed and the pending id in
\* the quorum cancels the wait and delivers the transition to Connected in that call.
C14_ContainerSavedPromotes ==
    [][(/\ lastOp'.op = "containerSaved"
        /\ connectionState = "CatchingUp"
        /\ prevClientLeftTimer
        /\ quorumInit
        /\ pendingClientId \in quorum)
       => /\ ~prevClientLeftTimer'
          /\ emitted' = <<<<"Connected", "CatchingUp", "none">>>>
          /\ connectionState' = "Connected"
          /\ failure' = "none"]_vars

\* containerSaved completed the promotion while the old client was still in the quorum.
C14_Witness ==
    /\ lastOp.op = "containerSaved"
    /\ connectionState = "Connected"
    /\ emitted = <<<<"Connected", "CatchingUp", "none">>>>
    /\ ~prevClientLeftTimer
    /\ shouldHaveLeft # {}

\* C15 as stated: a read-mode receivedConnectEvent in Disconnected with no leave wait
\* armed delivers (CatchingUp, Disconnected) then (Connected, CatchingUp) in the same
\* call, with or without a quorum; it ends Connected with the connection's client id.
C15_Original ==
    [][(/\ lastOp'.op = "connect"
        /\ connMode' = "read"
        /\ connectionState = "Disconnected"
        /\ ~prevClientLeftTimer)
       => /\ emitted' = <<<<"CatchingUp", "Disconnected", "none">>,
                          <<"Connected", "CatchingUp", "none">>>>
          /\ connectionState' = "Connected"
          /\ clientId' = lastConnId'
          /\ failure' = "none"]_vars

\* C15 amended: a read-mode receivedConnectEvent in Disconnected with no leave wait
\* armed and shouldClientJoinWrite() false delivers (CatchingUp, Disconnected) then
\* (Connected, CatchingUp) in the same call, with or without a quorum, and ends
\* Connected with the connection's client id; with shouldClientJoinWrite() true it
\* throws 0x30a, delivers nothing and leaves clientId as it was.
C15_ReadConnectPromotesAtOnce ==
    [][(/\ lastOp'.op = "connect"
        /\ connMode' = "read"
        /\ connectionState = "Disconnected"
        /\ ~prevClientLeftTimer)
       => IF shouldJoinWrite
          THEN /\ failure' = "0x30a"
               /\ emitted' = <<>>
               /\ clientId' = clientId
          ELSE /\ emitted' = <<<<"CatchingUp", "Disconnected", "none">>,
                               <<"Connected", "CatchingUp", "none">>>>
               /\ connectionState' = "Connected"
               /\ clientId' = lastConnId'
               /\ failure' = "none"]_vars

\* A read connection was promoted at once although no quorum exists yet.
C15_Witness ==
    /\ lastOp.op = "connect"
    /\ connMode = "read"
    /\ ~quorumInit
    /\ connectionState = "Connected"
    /\ clientId = lastConnId
    /\ Len(emitted) = 2

\* Positions in a step's timer calls that address prevClientLeftTimer.
LeaveTimerCalls(calls) == {i \in 1 .. Len(calls) : calls[i][1] = "prevClientLeftTimer"}

\* C16: receivedDisconnectEvent in state Disconnected logs setConnectionStateSame and
\* nothing else: no transition, no timer call, and state, clientId, pendingClientId and
\* both timers are unchanged.
C16_RedundantDisconnectIsNoOp ==
    [][(lastOp'.op = "disconnect" /\ connectionState = "Disconnected")
       => /\ diags' = <<"setConnectionStateSame">>
          /\ emitted' = <<>>
          /\ timerCalls' = <<>>
          /\ UNCHANGED <<connectionState, clientId, pendingClientId,
                         prevClientLeftTimer, joinOpTimer, shouldHaveLeft>>
          /\ failure' = "none"]_vars

\* A second disconnect arrived while Disconnected with the leave wait running.
C16_Witness ==
    /\ lastOp.op = "disconnect"
    /\ diags = <<"setConnectionStateSame">>
    /\ connectionState = "Disconnected"
    /\ prevClientLeftTimer
    /\ timerCalls = <<>>

\* C17: a receivedConnectEvent delivered in CatchingUp or Connected is rejected: every
\* transition it emits is one of the four legal ones and pendingClientId is not
\* overwritten.
C17_ConnectOutsideDisconnectedRejected ==
    [][(lastOp'.op = "connect" /\ connectionState # "Disconnected")
       => /\ \A i \in 1 .. Len(emitted') :
                 <<emitted'[i][2], emitted'[i][1]>> \in LegalTransitions
          /\ pendingClientId' = pendingClientId]_vars

\* C18: receivedDisconnectEvent and receivedConnectEvent leave an armed
\* prevClientLeftTimer running for the same clientId, with no clear or restart call; a
\* disconnect restarts the timer only when it is not armed, the old client is in the
\* quorum and shouldClientJoinWrite() is true, and does so whenever it leaves a state
\* other than Disconnected under those conditions.
C18_LeaveTimerSurvives ==
    [][/\ (lastOp'.op \in {"connect", "disconnect"} /\ prevClientLeftTimer)
          => /\ prevClientLeftTimer'
             /\ LeaveTimerCalls(timerCalls') = {}
             /\ clientId' = clientId
       /\ lastOp'.op = "disconnect"
          => (LeaveTimerCalls(timerCalls') # {}
                <=> /\ connectionState # "Disconnected"
                    /\ ~prevClientLeftTimer
                    /\ clientId # NoClient /\ quorumInit /\ clientId \in quorum
                    /\ shouldJoinWrite)
       /\ (lastOp'.op = "disconnect" /\ LeaveTimerCalls(timerCalls') # {})
          => (timerCalls'[Len(timerCalls')] = <<"prevClientLeftTimer", "restart">>
              /\ Cardinality(LeaveTimerCalls(timerCalls')) = 1)]_vars

\* A connection attempt made while the leave wait ran was dropped before promotion and
\* the wait is still running, untouched by the disconnect.
C18_Witness ==
    /\ lastOp.op = "disconnect"
    /\ emitted = <<<<"Disconnected", "CatchingUp", "disconnect">>>>
    /\ prevClientLeftTimer
    /\ LeaveTimerCalls(timerCalls) = {}
    /\ shouldJoinWrite
    /\ clientId \in quorum

\* C19: a joinOpTimer or prevClientLeftTimer callback delivered after its timer was
\* cleared changes no state, emits no transition and trips no assertion, whatever the
\* state it finds.
C19_LateCallbacksHarmless ==
    [][lastOp'.op \in {"lateJoinCallback", "lateLeaveCallback"}
       => /\ UNCHANGED <<connectionState, clientId, pendingClientId,
                         prevClientLeftTimer, joinOpTimer, shouldHaveLeft>>
          /\ emitted' = <<>>
          /\ failure' = "none"]_vars

\* C20: behind the catch-up adapter the owner is told Connected only by the monitor's
\* caughtUp signal, after the inner handler has emitted Connected for this connection
\* and with the monitor of this connection at its target; the inner Connected emission
\* is not forwarded, and what is forwarded is exactly (Connected, CatchingUp, "caught up").
C20_GateForwardsConnectedWhenCaughtUp ==
    /\ \A i \in 1 .. Len(forwarded) :
          forwarded[i][1] = "Connected"
            => /\ forwarded = <<<<"Connected", "CatchingUp", "caught up">>>>
               /\ lastOp.op = "caughtUp"
               /\ emitted = <<>>
               /\ connectionState = "Connected"
               /\ promotions = 1
               /\ catchUpMonitor.exists
               /\ catchUpMonitor.remaining = 0
    /\ ConnectedEmissions(emitted) > 0 => ConnectedEmissions(forwarded) = 0

\* The monitor let Connected through to the owner of a write connection.
C20_Witness ==
    /\ lastOp.op = "caughtUp"
    /\ forwarded = <<<<"Connected", "CatchingUp", "caught up">>>>
    /\ gateState = "Connected"
    /\ connectionState = "Connected"
    /\ connMode = "write"

\* C21 as stated: in every reachable state the adapter's connectionState equals the
\* inner handler's, except that it may be CatchingUp while the inner handler is
\* Connected.
C21_Original ==
    \/ gateState = connectionState
    \/ gateState = "CatchingUp" /\ connectionState = "Connected"

\* C21 amended: as long as no receivedConnectEvent has thrown its mode assertion the
\* adapter's connectionState equals the inner handler's, except that it may be
\* CatchingUp while the inner handler is Connected; a receivedConnectEvent that throws
\* 0x30a or 0x2a6 leaves the inner handler in CatchingUp and the adapter Disconnected.
C21_GateStateTracksInner ==
    IF failure \in {"0x30a", "0x2a6"}
    THEN connectionState = "CatchingUp" /\ gateState = "Disconnected"
    ELSE C21_Original

\* The inner handler is Connected and the adapter still waits for ops to be processed.
C21_Witness ==
    /\ gateState = "CatchingUp"
    /\ connectionState = "Connected"
    /\ catchUpMonitor.listener
    /\ catchUpMonitor.remaining > 0
    /\ failure = "none"

\* C22: a disconnect of the inner handler while the adapter waits for caughtUp disposes
\* of the monitor and nothing is forwarded as Connected for that attempt; Connected is
\* forwarded only by the caughtUp listener, and whenever that listener runs the inner
\* state is Connected and the adapter's state is CatchingUp, so both its assertions hold.
C22_DisconnectCancelsCatchUp ==
    [][/\ (lastOp'.op = "disconnect" /\ catchUpMonitor.listener)
          => /\ catchUpMonitor' = NoMonitor
             /\ ConnectedEmissions(forwarded') = 0
             /\ forwardedPromotions' = 0
       /\ forwardedPromotions' > forwardedPromotions => lastOp'.op = "caughtUp"
       /\ lastOp'.op = "caughtUp"
          => /\ connectionState = "Connected"
             /\ gateState = "CatchingUp"
             /\ catchUpMonitor.exists
             /\ failure' = "none"]_vars

\* The inner handler was promoted and then disconnected before the adapter had told
\* the owner; ops have been processed since and nothing was forwarded as Connected.
C22_Witness ==
    /\ lastOp.op = "opProcessed"
    /\ connectionState = "Disconnected"
    /\ gateState = "Disconnected"
    /\ promotions = 1
    /\ forwardedPromotions = 0
    /\ ~catchUpMonitor.exists
    /\ opsBehind = 0

\* C23: once the inner handler is Connected and the monitor of this connection has
\* reached its target (whenever that happened since its construction), the adapter
\* forwards Connected to the owner unless a disconnect or a thrown assertion comes
\* first.
C23_CaughtUpLeadsToConnected ==
    (/\ connectionState = "Connected"
     /\ gateState = "CatchingUp"
     /\ catchUpMonitor.exists
     /\ catchUpMonitor.remaining = 0
     /\ failure = "none")
    ~> (gateState = "Connected" \/ connectionState # "Connected" \/ failure # "none")

\* The owner of a read connection was told Connected by the monitor's signal.
C23_Witness ==
    /\ lastOp.op = "caughtUp"
    /\ gateState = "Connected"
    /\ connMode = "read"
    /\ forwardedPromotions = 1
    /\ catchUpMonitor.calls = 1

\* C24: a monitor calls its listener at most once, not in the step that constructs it
\* and not once it is disposed of; the owner is told (Connected, CatchingUp,
\* "caught up") at most once per connection attempt.
C24_MonitorSignalsOnce ==
    /\ catchUpMonitor.calls <= 1
    /\ forwardedPromotions <= 1
    /\ catchUpMonitor.exists => forwardedPromotions <= catchUpMonitor.calls
    /\ lastOp.op = "connect" => catchUpMonitor.calls = 0
    /\ ~catchUpMonitor.exists => (catchUpMonitor.calls = 0 /\ ~catchUpMonitor.listener)
    /\ catchUpMonitor.calls = 1 => ~catchUpMonitor.listener

\* The monitor of the second connection has called the listener, once.
C24_Witness ==
    /\ lastOp.op = "caughtUp"
    /\ lastConnId = 2
    /\ catchUpMonitor.calls = 1
    /\ forwardedPromotions = 1
    /\ forwarded = <<<<"Connected", "CatchingUp", "caught up">>>>

\* C25: dispose(), whatever the state it is called in, finds joinOpTimer not armed,
\* so that its assertion holds, and leaves prevClientLeftTimer not armed.
C25_DisposeFindsJoinTimerCleared ==
    [][lastOp'.op = "dispose"
       => /\ ~joinOpTimer
          /\ failure' = "none"
          /\ ~prevClientLeftTimer']_vars

\* C27: neither assertion at the top of applyForConnectedState ever throws: whenever
\* it is called, from receivedAddMemberEvent, receivedRemoveMemberEvent, containerSaved
\* or the leave timer's callback, the quorum is present, and a running leave wait
\* comes with a clientId that is a quorum member.
C27_ApplyAssertionsHold ==
    /\ failure \notin {"0x236", "0x2e2"}
    /\ lastOp.op \in {"addMember", "removeMember", "leaveTimeout"} => quorumInit
    /\ (lastOp.op = "containerSaved" /\ diags # <<>>) => quorumInit
    /\ prevClientLeftTimer => (quorumInit /\ clientId # NoClient /\ clientId \in quorum)

\* The Join of the pending id arrived while the leave wait was running:
\* applyForConnectedState was called with the wait armed and rejected the promotion.
C27_Witness ==
    /\ lastOp.op = "addMember"
    /\ lastOp.id = pendingClientId
    /\ prevClientLeftTimer
    /\ clientId \in quorum
    /\ diags # <<>>
    /\ diags[Len(diags)] = "connectedStateRejected"
    /\ failure = "none"

\* The step from the current state to the next one called applyForConnectedState.
ApplyCalled ==
    \/ lastOp'.op = "addMember" /\ lastOp'.id = pendingClientId
    \/ lastOp'.op = "removeMember" /\ lastOp'.id = clientId
    \/ lastOp'.op = "containerSaved" /\ prevClientLeftTimer
    \/ lastOp'.op = "leaveTimeout"

\* C28: an applyForConnectedState call promotes exactly when the pending id is
\* present, differs from clientId, is a quorum member and no leave wait runs; a call
\* that does not promote logs connectedStateRejected and nothing else: no transition
\* is emitted, connectionState, clientId, pendingClientId and the shouldHaveLeft flags
\* are unchanged, and the timers are touched by its caller only.
C28_RejectedApplyOnlyLogs ==
    [][(ApplyCalled /\ failure' = "none")
       => IF ConnectedEmissions(emitted') > 0
          THEN /\ pendingClientId # NoClient
               /\ pendingClientId # clientId
               /\ pendingClientId \in quorum'
               /\ ~prevClientLeftTimer'
          ELSE /\ \/ pendingClientId = NoClient
                  \/ pendingClientId = clientId
                  \/ pendingClientId \notin quorum'
                  \/ prevClientLeftTimer'
               /\ diags' # <<>>
               /\ diags'[Len(diags')] = "connectedStateRejected"
               /\ emitted' = <<>>
               /\ waitEnds' = <<>>
               /\ UNCHANGED <<connectionState, clientId, pendingClientId, shouldHaveLeft>>
               /\ lastOp'.op = "addMember"
                  => /\ UNCHANGED prevClientLeftTimer
                     /\ ~joinOpTimer'
                     /\ LeaveTimerCalls(timerCalls') = {}
               /\ lastOp'.op # "addMember"
                  => /\ UNCHANGED joinOpTimer
                     /\ ~prevClientLeftTimer'
                     /\ timerCalls' = IF lastOp'.op = "leaveTimeout"
                                      THEN <<>>
                                      ELSE <<<<"prevClientLeftTimer", "clear">>>>]_vars

\* The previous client left while the new connection still waits for its own Join:
\* applyForConnectedState was called and only logged the rejection.
C28_Witness ==
    /\ lastOp.op = "removeMember"
    /\ lastOp.id = clientId
    /\ connectionState = "CatchingUp"
    /\ pendingClientId # NoClient
    /\ pendingClientId \notin quorum
    /\ joinOpTimer
    /\ diags = <<"connectedStateRejected">>
    /\ emitted = <<>>
    /\ failure = "none"

\* C29: shouldHaveLeft is set only in a step that emits the transition to Connected,
\* and only on the member whose id was clientId before that step, if it is still a
\* member; the member of the new clientId is not marked. Flags disappear only with
\* their member, and the quorum changes only in the steps of its own events and of
\* initProtocol.
C29_ShouldHaveLeftOnlyAtPromotion ==
    [][/\ shouldHaveLeft' \subseteq shouldHaveLeft \cup {clientId}
       /\ shouldHaveLeft \ shouldHaveLeft' \subseteq quorum \ quorum'
       /\ shouldHaveLeft' # shouldHaveLeft \cap quorum'
          => /\ ConnectedEmissions(emitted') > 0
             /\ clientId \in quorum'
             /\ clientId' = (IF lastOp'.op = "connect" THEN lastOp'.id ELSE pendingClientId)
             /\ clientId' # clientId
       /\ ConnectedEmissions(emitted') > 0
          => /\ shouldHaveLeft' = (shouldHaveLeft \cap quorum')
                                    \cup (IF clientId \in quorum' THEN {clientId} ELSE {})
             /\ clientId' \notin shouldHaveLeft'
       /\ lastOp'.op \notin {"addMember", "removeMember", "initProtocol"}
          => UNCHANGED <<quorum, quorumInit>>]_vars

\* The leave wait for the previous client timed out: the new id was promoted, the
\* previous client is still a member and is the only one marked.
C29_Witness ==
    /\ lastOp.op = "leaveTimeout"
    /\ connectionState = "Connected"
    /\ clientId \in quorum
    /\ clientId \notin shouldHaveLeft
    /\ shouldHaveLeft # {}
    /\ shouldHaveLeft \subseteq quorum
    /\ emitted # <<>>
    /\ failure = "none"

\* C30: initProtocol on a handler constructed with a client id that is a member of
\* the installed quorum arms prevClientLeftTimer, and the timer stays armed until a
\* Leave of that id, a containerSaved or the timer's expiry; a write connection made
\* while the handler still carries that id is promoted to Connected only in or after
\* a step that delivered one of those three, never by its Join alone.
C30_InitialClientLeaveWait ==
    /\ [][(lastOp'.op = "initProtocol" /\ clientId = InitialId /\ InitialId \in quorum')
          => /\ prevClientLeftTimer'
             /\ timerCalls' = <<<<"prevClientLeftTimer", "restart">>>>
             /\ initialLeaveWait' = "waiting"]_vars
    /\ []((initialLeaveWait = "waiting" /\ Live) => prevClientLeftTimer)
    /\ [][(/\ ConnectedEmissions(emitted') > 0
           /\ clientId = InitialId
           /\ connMode' = "write"
           /\ initialLeaveWait' # "none")
          => /\ initialLeaveWait' = "ended"
             /\ \/ LeaveSignal(lastOp', InitialId)
                \/ JoinSignal(lastOp', pendingClientId)
                \/ lastOp'.op = "connect"]_vars

\* The handler resumed with an id found in the quorum; the new write connection's Join
\* arrived first and the Leave of the old id then promoted it.
C30_Witness ==
    /\ lastOp = [op |-> "removeMember", id |-> InitialId]
    /\ initialLeaveWait = "ended"
    /\ connectionState = "Connected"
    /\ connMode = "write"
    /\ clientId = lastConnId
    /\ clientId \in quorum
    /\ emitted = <<<<"Connected", "CatchingUp", "none">>>>
    /\ failure = "none"

\* C31: for a write connection whose id is not a quorum member when it connects: a
\* Join that finds joinOpTimer armed stops it, and neither NoJoinOp nor ReceivedJoinOp
\* is logged in that step or was logged before it for this attempt; a joinOpTimer that
\* expires before the Join of the id has been sequenced logs NoJoinOp, and the Join
\* that follows logs ReceivedJoinOp; ReceivedJoinOp is logged only for an attempt that
\* logged NoJoinOp before.
C31_JoinOpDiagnostics ==
    [][/\ (JoinSignal(lastOp', pendingClientId) /\ connMode = "write" /\ joinOpTimer)
          => /\ ~joinOpTimer'
             /\ <<"joinOpTimer", "clear">> \in {timerCalls'[k] : k \in 1 .. Len(timerCalls')}
             /\ ~Logged(diags', "NoJoinOp")
             /\ ~Logged(diags', "ReceivedJoinOp")
             /\ ~noJoinOpSeen
       /\ (lastOp'.op = "joinTimeout" /\ connMode = "write" /\ pendingClientId \notin everJoined)
          => /\ diags' = <<"NoJoinOp">>
             /\ noJoinOpSeen'
       /\ (JoinSignal(lastOp', pendingClientId) /\ connMode = "write" /\ noJoinOpSeen)
          => (Logged(diags', "ReceivedJoinOp") /\ ~joinOpTimer)
       /\ (connMode = "write" /\ Logged(diags', "ReceivedJoinOp")) => noJoinOpSeen]_vars

\* The Join of a write connection arrived after its joinOpTimer had expired and
\* promoted it.
C31_Witness ==
    /\ lastOp.op = "addMember"
    /\ lastOp.id = clientId
    /\ connMode = "write"
    /\ connectionState = "Connected"
    /\ Logged(diags, "ReceivedJoinOp")
    /\ ~joinOpTimer
    /\ failure = "none"

\* C32: receivedAddMemberEvent for an id other than pendingClientId,
\* receivedRemoveMemberEvent for an id other than clientId, and containerSaved while
\* prevClientLeftTimer is not armed change nothing: the state, both ids and both timers
\* are as before, no timer is touched, and neither a transition nor a diagnostic is
\* emitted.
C32_ForeignEventsAreNoOps ==
    [][(\/ lastOp'.op = "addMember" /\ lastOp'.id # pendingClientId
        \/ lastOp'.op = "removeMember" /\ lastOp'.id # clientId
        \/ lastOp'.op = "containerSaved" /\ ~prevClientLeftTimer)
       => /\ UNCHANGED <<connectionState, clientId, pendingClientId,
                         prevClientLeftTimer, joinOpTimer>>
          /\ emitted' = <<>>
          /\ diags' = <<>>
          /\ timerCalls' = <<>>
          /\ failure' = "none"]_vars

\* Another client left the quorum while the handler, catching up on a new connection,
\* waits for the leave of its own previous client.
C32_Witness ==
    /\ lastOp.op = "removeMember"
    /\ lastOp.id # clientId
    /\ connectionState = "CatchingUp"
    /\ prevClientLeftTimer
    /\ pendingClientId \in quorum
    /\ diags = <<>>
    /\ emitted = <<>>
    /\ failure = "none"

\* C33: prevClientLeftTimer is never armed while the state is Connected, and the
\* assertion of its callback that the state is not Connected never throws.
C33_LeaveTimerNeverArmedInConnected ==
    /\ ~(prevClientLeftTimer /\ connectionState = "Connected")
    /\ failure # "0x2ac"

\* prevClientLeftTimer expired while the handler was connecting: the callback's
\* assertion held and the expiry promoted the pending id, with the timer disarmed.
C33_Witness ==
    /\ lastOp.op = "leaveTimeout"
    /\ failure = "none"
    /\ connectionState = "Connected"
    /\ clientId = pendingClientId
    /\ ~prevClientLeftTimer
    /\ Len(emitted) = 1

\* C34: after any handler has returned, a live handler in CatchingUp still waits for
\* something: the quorum is absent, or the pending id is no quorum member, or
\* prevClientLeftTimer is armed.
C34_CatchingUpAlwaysWaits ==
    (connectionState = "CatchingUp" /\ Live)
    => (~quorumInit \/ pendingClientId \notin quorum \/ prevClientLeftTimer)

\* C35: in every transition handed to the owner's connectionStateChanged, oldState is
\* the new state of the transition handed over before it, Disconnected for the first.
C35_OwnerSeesChainedOldStates ==
    \A i \in 1 .. Len(forwarded) :
        forwarded[i][2] = IF i = 1 THEN prevForwarded ELSE forwarded[i - 1][1]

\* C40: with receivedConnectEvent delivered only in Disconnected, the adapter holds a
\* CatchUpMonitor exactly when its own state is not Disconnected, and none of the
\* assertions of its connectionStateChanged throws.
C40_MonitorExistsIffGateNotDisconnected ==
    /\ catchUpMonitor.exists <=> gateState # "Disconnected"
    /\ failure \notin {"connectivity transitions: Connected",
                        "catchUpMonitor should always be set",
                        "connectivity transitions: CatchingUp",
                        "catchUpMonitor should be gone"}

\* The second connection, made after the first was dropped, built a monitor of its own
\* and was promoted by the inner handler.
C40_Witness ==
    /\ lastOp.op = "connect"
    /\ lastConnId = 2
    /\ prevForwarded = "Disconnected"
    /\ gateState = "CatchingUp"
    /\ connectionState = "Connected"
    /\ catchUpMonitor.exists
    /\ catchUpMonitor.listener
    /\ catchUpMonitor.calls = 0
    /\ failure = "none"

\* A push is rejected by the limits alone: compression is not configured with a finite
\* minimum size, and the content with the new message plus the envelope of every op
\* already in the batch reaches the hard limit, or reaches a defined soft limit while
\* the batch holds an op.
PushRejects(o, batch, size, message) ==
    LET estimate == size + ContentLength(message) + EnvelopeSize * Len(batch)
    IN  /\ o.minimumBatchSizeInBytes \in {Undefined, Infinity}
        /\ \/ estimate >= o.hardLimit
           \/ o.softLimit # Undefined /\ Len(batch) > 0 /\ estimate >= o.softLimit

\* C36: push returns false and changes nothing exactly when compression is not
\* configured with a finite minimum size and the estimated socket size reaches the hard
\* limit, or reaches a defined soft limit while the batch is non-empty; every other
\* push appends the message, adds its length to the tracked size and returns true.
C36_PushRejectsExactlyAtLimits ==
    [][lastBatchOp' = "push" =>
          IF PushRejects(options, pendingBatch, batchContentSize, lastPushed')
          THEN /\ pushResult' = FALSE
               /\ pendingBatch' = pendingBatch
               /\ batchContentSize' = batchContentSize
          ELSE /\ pushResult' = TRUE
               /\ pendingBatch' = Append(pendingBatch, lastPushed')
               /\ batchContentSize' = batchContentSize + ContentLength(lastPushed')]_vars

\* A push into a non-empty batch was rejected by the soft limit, below the hard limit.
C36_Witness ==
    /\ lastBatchOp = "push"
    /\ ~pushResult
    /\ pendingBatch # <<>>
    /\ options.softLimit # Undefined
    /\ batchContentSize + ContentLength(lastPushed) + EnvelopeSize * Len(pendingBatch)
          < options.hardLimit

\* The elements of a sequence, last first.
Reverse(seq) == [k \in 1 .. Len(seq) |-> seq[Len(seq) + 1 - k]]

\* C37: a rollback leaves the pending batch holding exactly the messages, in order,
\* that were pending when its checkpoint was taken, passes every message pushed since
\* then (and not rolled back before) to process once in reverse push order, and
\* restores the tracked size of the checkpoint, whatever pushes and popBatch calls
\* came in between.
C37_RollbackRestoresCheckpoint ==
    [][lastBatchOp' = "rollback" =>
          /\ batchFailure' = "none"
          /\ pendingBatch' = checkpoints[rolledBack'].batchAt
          /\ processed' = Reverse(checkpoints[rolledBack'].pushedSince)
          /\ batchContentSize' = checkpoints[rolledBack'].sizeAt]_vars

\* The messages of a batch: its slots that hold an element.
RealMessages(batch) == SelectSeq(batch, LAMBDA message : message # Hole)

RECURSIVE SumContents(_)
SumContents(batch) ==
    IF batch = <<>> THEN 0 ELSE ContentLength(Head(batch)) + SumContents(Tail(batch))

\* C38: after any sequence of calls the tracked size is the sum of the content
\* lengths of the pending messages, length is the number of pending messages, and a
\* popBatch leaves the batch empty with size zero.
C38_SizeAndLengthTrackBatch ==
    /\ batchContentSize = SumContents(RealMessages(pendingBatch))
    /\ BatchLength(CurBatch) = Len(RealMessages(pendingBatch))
    /\ BatchEmpty(CurBatch) <=> RealMessages(pendingBatch) = <<>>
    /\ lastBatchOp = "popBatch" => BatchEmpty(CurBatch) /\ batchContentSize = 0

\* C39: when partitionManager.checkPoint runs, every object message whose offset the
\* partition manager has recorded has its ticket promise resolved and is covered by a
\* dispenser checkpoint that reached Mongo.
C39_CheckPointCoversRecordedOffsets ==
    lastDeliOp = "checkPoint" =>
        \A offset \in DOMAIN ticketed :
            offset <= committed => offset \in resolved /\ offset \in mongo

====
